---- MODULE Spec2Model ----
(***************************************************************************)
(* A model of the Bingo room server of src/server.js: the registry `games` *)
(* of BingoGame objects, the sockets with their `roomId`, the socket.io    *)
(* handlers (joinGame, startGame, markCell, claimBingo, newGame,           *)
(* disconnect), the per-room draw interval and the global broadcast        *)
(* interval.                                                               *)
(*                                                                         *)
(* Node runs every handler and every timer callback to completion on one   *)
(* thread, so each handler and each callback is one atomic action.         *)
(***************************************************************************)
EXTENDS Integers, Sequences, FiniteSets, TLC

(***************************************************************************)
(* Bounds of the model.                                                    *)
(***************************************************************************)
\* Math.random() is modelled as returning k / RandDenom, k in 0..RandDenom-1.
RandDenom == 5
\* The streams of Math.random() values a card is generated from.
NumSeeds == 2
\* In SpecWin, the marked sets are unions of two lines less at most
\* MaxMissing cells.
MaxMissing == 3
\* In Spec, the interval callback fires only while fewer values are called.
MaxDraws == 5

\* Connections (socket.id) and the room ids and names they send.
Sockets == {"s1", "s2"}
Rooms == {"A"}
\* The playerName each connection sends with joinGame ("" asks for the default).
PlayerNames(s) == IF s = "s1" THEN {"Ann"} ELSE {""}
Seeds == 0 .. (NumSeeds - 1)
\* The values of Math.random() (numerators over RandDenom) at the draw of
\* startGame and at the draws of the interval.
StartNums == {0, RandDenom - 1}
DrawNums == {0}
\* The streams of Math.random() values of SpecCards: one for each numerator.
CardSeeds == 0 .. (RandDenom - 1)

(***************************************************************************)
(* Program constants.                                                      *)
(***************************************************************************)
\* 'FREE', the value of the centre cell (an integer no column range holds).
FREE == 0
\* null as the value of currentNumber and of callInterval.
Null == 0
\* The Timeout handle setInterval returns.
Handle == 1
\* The numbers called are 1..MaxNumber.
MaxNumber == 75
\* A card has Size columns of Size rows.
Size == 5
\* null as the value of winner, undefined as the value of socket.roomId.
NoWinner == "null"
NoRoom == "undefined"

Idx == 0 .. (Size - 1)

(***************************************************************************)
(* Math.random and Math.floor(Math.random() * len).                        *)
(***************************************************************************)
\* The numerator of the k-th value (k = 0, 1, ..) of the stream `seed`.
Random(seed, k) == (seed * (k + 1)) % RandDenom

RandomIndex(num, len) == (num * len) \div RandDenom

(***************************************************************************)
(* BingoGame.generateBingoCard: a card is a sequence of Size columns, each *)
(* a sequence of Size cell values; card[col + 1][row + 1] is the code's    *)
(* card[col][row].                                                         *)
(***************************************************************************)
\* ranges[col] is Ranges[col + 1].
Ranges == << <<1, 15>>, <<16, 30>>, <<31, 45>>, <<46, 60>>, <<61, 75>> >>

\* Array.from({length: max - min + 1}, (_, i) => min + i)
ArrayFrom(min, max) == [i \in 1 .. (max - min + 1) |-> min + i - 1]

\* A splice that removes nothing.
SpliceKeep(arr, randomIndex) == arr

\* available.splice(randomIndex, 1): the array without its element randomIndex.
Splice(arr, randomIndex) ==
    [i \in 1 .. (Len(arr) - 1) |-> IF i <= randomIndex THEN arr[i] ELSE arr[i + 1]]

\* The number of Math.random() calls made before cell (col, row) is filled.
CallNo(col, row) ==
    col * Size + row - (IF col > 2 \/ (col = 2 /\ row > 2) THEN 1 ELSE 0)

RECURSIVE FillColumn(_, _, _, _, _)
FillColumn(col, row, available, numbers, seed) ==
    IF row = Size THEN numbers
    ELSE IF col = 2 /\ row = 2
         THEN FillColumn(col, row + 1, available, Append(numbers, FREE), seed)
         ELSE LET randomIndex == RandomIndex(Random(seed, CallNo(col, row)), Len(available))
              IN  FillColumn(col, row + 1, Splice(available, randomIndex),
                             Append(numbers, available[randomIndex + 1]), seed)

generateBingoCard(seed) ==
    [c \in 1 .. Size |->
        FillColumn(c - 1, 0, ArrayFrom(Ranges[c][1], Ranges[c][2]), <<>>, seed)]

\* The cards of the streams of CardSeeds (Seeds is a subset), generated once.
Cards == [seed \in CardSeeds |-> generateBingoCard(seed)]

\* card[col][row]
CellValue(card, col, row) == card[col + 1][row + 1]

(***************************************************************************)
(* BingoGame: the constructor and the methods addPlayer, removePlayer,     *)
(* callNumber, stopGame, startGame and checkWin, as functions from game    *)
(* records to game records.                                                *)
(***************************************************************************)
EmptyMap == [x \in {} |-> Null]

NewBingoGame ==
    [players |-> EmptyMap,
     calledNumbers |-> <<>>,
     currentNumber |-> Null,
     gameState |-> "waiting",
     winner |-> NoWinner,
     callInterval |-> Null]

\* Map.prototype.set
MapSet(map, key, value) ==
    [k \in DOMAIN map \cup {key} |-> IF k = key THEN value ELSE map[k]]

\* Map.prototype.delete
MapDelete(map, key) == [k \in DOMAIN map \ {key} |-> map[k]]

MapSize(map) == Cardinality(DOMAIN map)

\* calledNumbers.includes(num)
Includes(arr, num) == \E i \in 1 .. Len(arr) : arr[i] = num

addPlayer(game, socketId, playerName, seed) ==
    [game EXCEPT !.players =
        MapSet(@, socketId, [name |-> playerName,
                             card |-> Cards[seed],
                             markedCells |-> {}])]

\* stopGame without its clearInterval.
stopGameKeep(game) == game

stopGame(game) ==
    IF game.callInterval # Null THEN [game EXCEPT !.callInterval = Null] ELSE game

\* removePlayer without its stopGame.
removePlayerNoStop(game, socketId) ==
    [game EXCEPT !.players = MapDelete(@, socketId)]

removePlayer(game, socketId) ==
    LET g == [game EXCEPT !.players = MapDelete(@, socketId)]
    IN  IF MapSize(g.players) = 0 THEN stopGame(g) ELSE g

\* The numbers 1..75 without the filter on calledNumbers.
AvailableNumbersAll(game) == ArrayFrom(1, MaxNumber)

AvailableNumbers(game) ==
    SelectSeq(ArrayFrom(1, MaxNumber), LAMBDA num : ~Includes(game.calledNumbers, num))

\* callNumber without its stopGame on an empty pool.
callNumberNoStop(game, num) ==
    LET availableNumbers == AvailableNumbers(game)
    IN  IF Len(availableNumbers) = 0
        THEN game
        ELSE LET number == availableNumbers[RandomIndex(num, Len(availableNumbers)) + 1]
             IN  [game EXCEPT !.calledNumbers = Append(@, number),
                              !.currentNumber = number]

\* callNumber with Math.random() = num / RandDenom.
callNumber(game, num) ==
    LET availableNumbers == AvailableNumbers(game)
    IN  IF Len(availableNumbers) = 0
        THEN stopGame(game)
        ELSE LET number == availableNumbers[RandomIndex(num, Len(availableNumbers)) + 1]
             IN  [game EXCEPT !.calledNumbers = Append(@, number),
                              !.currentNumber = number]

\* startGame without its immediate callNumber.
startGameNoDraw(game, num) ==
    IF game.gameState # "waiting" THEN game
    ELSE [game EXCEPT !.gameState = "playing",
                      !.calledNumbers = <<>>,
                      !.winner = NoWinner,
                      !.callInterval = Handle]

\* startGame without its guard on gameState.
startGameAlways(game, num) ==
    callNumber([game EXCEPT !.gameState = "playing",
                            !.calledNumbers = <<>>,
                            !.winner = NoWinner,
                            !.callInterval = Handle], num)

startGame(game, num) ==
    IF game.gameState # "waiting" THEN game
    ELSE callNumber([game EXCEPT !.gameState = "playing",
                                 !.calledNumbers = <<>>,
                                 !.winner = NoWinner,
                                 !.callInterval = Handle], num)

freeIndex == 2 * 5 + 2

\* checkWin without its check of the diagonal from top-right to bottom-left.
checkWinNoAnti(markedCells) ==
    LET marked == markedCells \cup {freeIndex}
    IN  \/ \E row \in Idx : Cardinality({col \in Idx : (row * 5 + col) \in marked}) = 5
        \/ \E col \in Idx : Cardinality({row \in Idx : (row * 5 + col) \in marked}) = 5
        \/ Cardinality({i \in Idx : (i * 5 + i) \in marked}) = 5

\* checkWin with a count of four in place of five.
checkWinFour(markedCells) ==
    LET marked == markedCells \cup {freeIndex}
    IN  \/ \E row \in Idx : Cardinality({col \in Idx : (row * 5 + col) \in marked}) >= 4
        \/ \E col \in Idx : Cardinality({row \in Idx : (row * 5 + col) \in marked}) >= 4
        \/ Cardinality({i \in Idx : (i * 5 + i) \in marked}) >= 4
        \/ Cardinality({i \in Idx : (i * 5 + (4 - i)) \in marked}) >= 4

\* The marked set as checkWin leaves it: markedCells.add(freeIndex).
checkWinMarked(markedCells) == markedCells \cup {freeIndex}

\* The result of checkWin for a player whose marked set is markedCells.
checkWin(markedCells) ==
    LET marked == checkWinMarked(markedCells)
    IN  \/ \E row \in Idx : Cardinality({col \in Idx : (row * 5 + col) \in marked}) = 5
        \/ \E col \in Idx : Cardinality({row \in Idx : (row * 5 + col) \in marked}) = 5
        \/ Cardinality({i \in Idx : (i * 5 + i) \in marked}) = 5
        \/ Cardinality({i \in Idx : (i * 5 + (4 - i)) \in marked}) = 5

(***************************************************************************)
(* The state.                                                              *)
(***************************************************************************)
VARIABLES
    games,     \* the registry: room id -> BingoGame
    orphans,   \* room id -> a game deleted from the registry whose interval is still live
    sockets,   \* socket id -> [connected, roomId]
    outbox     \* the events the last handler or callback emitted

vars == <<games, orphans, sockets, outbox>>

Emit(event, to) == [event |-> event, to |-> to]

Init ==
    /\ games = EmptyMap
    /\ orphans = EmptyMap
    /\ sockets = [s \in Sockets |-> [connected |-> TRUE, roomId |-> NoRoom]]
    /\ outbox = {}

\* The handlers' first lines: roomId = socket.roomId; game = games.get(roomId).
HasGame(s) == sockets[s].roomId # NoRoom /\ sockets[s].roomId \in DOMAIN games

(***************************************************************************)
(* socket.on('joinGame')                                                   *)
(***************************************************************************)
DefaultName(n) == <<"Player 1", "Player 2", "Player 3", "Player 4">>[n]

JoinGame(s, roomId, playerName, seed) ==
    /\ sockets[s].connected
    /\ LET base == IF roomId \in DOMAIN games THEN games[roomId] ELSE NewBingoGame
           name == IF playerName # "" THEN playerName
                   ELSE DefaultName(MapSize(base.players) + 1)
       IN  games' = MapSet(games, roomId, addPlayer(base, s, name, seed))
    /\ sockets' = [sockets EXCEPT ![s].roomId = roomId]
    /\ outbox' = {Emit("gameJoined", s), Emit("playerJoined", roomId)}
    /\ UNCHANGED orphans

(***************************************************************************)
(* socket.on('startGame')                                                  *)
(***************************************************************************)
StartGame(s, num) ==
    /\ sockets[s].connected
    /\ IF HasGame(s)
       THEN LET roomId == sockets[s].roomId
            IN  /\ outbox' = {Emit("gameStarted", roomId)}
                /\ games' = [games EXCEPT ![roomId] = startGame(@, num)]
       ELSE /\ outbox' = {}
            /\ UNCHANGED games
    /\ UNCHANGED <<orphans, sockets>>

(***************************************************************************)
(* The callback of the interval startGame sets: this.callNumber().  The    *)
(* interval of a game is live while its callInterval holds the handle; it  *)
(* keeps firing on a game object that was deleted from the registry.       *)
(***************************************************************************)
DrawTick(roomId, num) ==
    IF roomId \in DOMAIN orphans
    THEN /\ outbox' = {}
         /\ UNCHANGED <<games, sockets>>
         /\ orphans' = [orphans EXCEPT ![roomId] = callNumber(@, num)]
    ELSE /\ roomId \in DOMAIN games
         /\ games[roomId].callInterval # Null
         /\ outbox' = {}
         /\ UNCHANGED <<orphans, sockets>>
         /\ games' = [games EXCEPT ![roomId] = callNumber(@, num)]

(***************************************************************************)
(* socket.on('markCell')                                                   *)
(***************************************************************************)
\* A condition that lets every cell be marked.
MarkableAlways(game, cellValue) == TRUE

\* The handler's condition (line 237) on the value of the cell.
Markable(game, cellValue) ==
    cellValue = FREE \/ Includes(game.calledNumbers, cellValue)

MarkCell(s, row, col) ==
    /\ sockets[s].connected
    /\ IF HasGame(s) /\ s \in DOMAIN games[sockets[s].roomId].players
       THEN LET roomId == sockets[s].roomId
                game == games[roomId]
                player == game.players[s]
                index == row * 5 + col
                cellValue == CellValue(player.card, col, row)
            IN  IF Markable(game, cellValue)
                THEN /\ outbox' = {Emit("cellMarked", s)}
                     /\ games' = [games EXCEPT ![roomId].players[s].markedCells =
                                                   @ \cup {index}]
                ELSE /\ outbox' = {}
                     /\ UNCHANGED games
       ELSE /\ outbox' = {}
            /\ UNCHANGED games
    /\ UNCHANGED <<orphans, sockets>>

(***************************************************************************)
(* socket.on('claimBingo')                                                 *)
(***************************************************************************)
\* A claim that wins whatever checkWin answers.
ClaimResultAlways(game, s) ==
    stopGame([game EXCEPT !.players[s].markedCells = checkWinMarked(@),
                          !.gameState = "finished",
                          !.winner = game.players[s].name])

\* A claim that wins without game.stopGame().
ClaimResultNoStop(game, s) ==
    LET checked == [game EXCEPT !.players[s].markedCells = checkWinMarked(@)]
    IN  IF checkWin(game.players[s].markedCells)
        THEN [checked EXCEPT !.gameState = "finished",
                             !.winner = game.players[s].name]
        ELSE checked

\* The game after the handler's lines 253-259, for a player s of the game.
ClaimResult(game, s) ==
    LET checked == [game EXCEPT !.players[s].markedCells = checkWinMarked(@)]
    IN  IF checkWin(game.players[s].markedCells)
        THEN stopGame([checked EXCEPT !.gameState = "finished",
                                      !.winner = game.players[s].name])
        ELSE checked

\* The events of a claim that sends the rejection to the whole room.
ClaimEventsToRoom(game, roomId, s) ==
    IF checkWin(game.players[s].markedCells)
    THEN {Emit("gameWon", roomId)}
    ELSE {Emit("invalidBingo", roomId)}

\* The events the handler emits (lines 260-269).
ClaimEvents(game, roomId, s) ==
    IF checkWin(game.players[s].markedCells)
    THEN {Emit("gameWon", roomId)}
    ELSE {Emit("invalidBingo", s)}

ClaimBingo(s) ==
    /\ sockets[s].connected
    /\ IF /\ HasGame(s)
          /\ games[sockets[s].roomId].gameState = "playing"
          /\ s \in DOMAIN games[sockets[s].roomId].players
       THEN LET roomId == sockets[s].roomId
            IN  /\ outbox' = ClaimEvents(games[roomId], roomId, s)
                /\ games' = [games EXCEPT ![roomId] = ClaimResult(@, s)]
       ELSE /\ outbox' = {}
            /\ UNCHANGED games
    /\ UNCHANGED <<orphans, sockets>>

(***************************************************************************)
(* socket.on('newGame'): seedOf gives the stream each player's new card is *)
(* generated from.                                                         *)
(***************************************************************************)
\* A reset that keeps currentNumber.
ResetGameKeepCurrent(game, seedOf) ==
    [stopGame(game) EXCEPT
        !.calledNumbers = <<>>,
        !.gameState = "waiting",
        !.winner = NoWinner,
        !.players = [p \in DOMAIN game.players |->
                        [game.players[p] EXCEPT !.card = Cards[seedOf[p]],
                                                !.markedCells = {}]]]

\* A reset without its game.stopGame().
ResetGameNoStop(game, seedOf) ==
    [game EXCEPT
        !.calledNumbers = <<>>,
        !.currentNumber = Null,
        !.gameState = "waiting",
        !.winner = NoWinner,
        !.players = [p \in DOMAIN game.players |->
                        [game.players[p] EXCEPT !.card = Cards[seedOf[p]],
                                                !.markedCells = {}]]]

\* A reset that keeps the players' marked sets.
ResetGameKeepMarks(game, seedOf) ==
    [stopGame(game) EXCEPT
        !.calledNumbers = <<>>,
        !.currentNumber = Null,
        !.gameState = "waiting",
        !.winner = NoWinner,
        !.players = [p \in DOMAIN game.players |->
                        [game.players[p] EXCEPT !.card = Cards[seedOf[p]]]]]

\* The game after the handler's lines 280-290.
ResetGame(game, seedOf) ==
    [stopGame(game) EXCEPT
        !.calledNumbers = <<>>,
        !.currentNumber = Null,
        !.gameState = "waiting",
        !.winner = NoWinner,
        !.players = [p \in DOMAIN game.players |->
                        [game.players[p] EXCEPT !.card = Cards[seedOf[p]],
                                                !.markedCells = {}]]]

NewGame(s, seedOf) ==
    /\ sockets[s].connected
    /\ IF HasGame(s)
       THEN LET roomId == sockets[s].roomId
            IN  /\ DOMAIN seedOf = DOMAIN games[roomId].players
                /\ outbox' = {Emit("gameReset", p) : p \in DOMAIN games[roomId].players}
                /\ games' = [games EXCEPT ![roomId] = ResetGame(@, seedOf)]
       ELSE /\ seedOf = EmptyMap
            /\ outbox' = {}
            /\ UNCHANGED games
    /\ UNCHANGED <<orphans, sockets>>

(***************************************************************************)
(* socket.on('disconnect')                                                 *)
(***************************************************************************)
Disconnect(s) ==
    /\ sockets[s].connected
    /\ sockets' = [sockets EXCEPT ![s] = [connected |-> FALSE, roomId |-> NoRoom]]
    /\ IF HasGame(s)
       THEN LET roomId == sockets[s].roomId
                game == removePlayer(games[roomId], s)
            IN  IF MapSize(game.players) = 0
                THEN /\ games' = MapDelete(games, roomId)
                     /\ orphans' = IF game.callInterval # Null
                                   THEN MapSet(orphans, roomId, game)
                                   ELSE orphans
                     /\ outbox' = {}
                ELSE /\ games' = [games EXCEPT ![roomId] = game]
                     /\ outbox' = {Emit("playerLeft", roomId)}
                     /\ UNCHANGED orphans
       ELSE /\ outbox' = {}
            /\ UNCHANGED <<games, orphans>>

(***************************************************************************)
(* The callback of the global 100 ms interval.                             *)
(***************************************************************************)
Broadcast ==
    /\ outbox' = {Emit("numberCalled", r) : r \in
                    {g \in DOMAIN games : /\ games[g].gameState = "playing"
                                          /\ games[g].currentNumber # Null}}
    /\ UNCHANGED <<games, orphans, sockets>>

(***************************************************************************)
(* Spec: two connections, one room id; the draw interval fires while       *)
(* fewer than MaxDraws values are called.                                  *)
(***************************************************************************)
\* The cells <<row, col>> each connection sends with markCell: s1 the cells of
\* column 0 and a cell of column 4, s2 the centre and two corners.
MarkInputs(s) ==
    IF s = "s1" THEN {<<row, 0>> : row \in Idx} \cup {<<0, 4>>}
    ELSE {<<2, 2>>, <<0, 0>>, <<0, 4>>}

TimerRooms == DOMAIN games \cup DOMAIN orphans

HistoryOf(roomId) ==
    IF roomId \in DOMAIN orphans THEN orphans[roomId].calledNumbers
    ELSE games[roomId].calledNumbers

Next ==
    \/ \E s \in Sockets, roomId \in Rooms, seed \in Seeds : \E playerName \in PlayerNames(s) :
          JoinGame(s, roomId, playerName, seed)
    \/ \E s \in Sockets, num \in StartNums : StartGame(s, num)
    \/ \E roomId \in TimerRooms, num \in DrawNums :
          Len(HistoryOf(roomId)) < MaxDraws /\ DrawTick(roomId, num)
    \/ \E s \in Sockets : \E cell \in MarkInputs(s) : MarkCell(s, cell[1], cell[2])
    \/ \E s \in Sockets : ClaimBingo(s)
    \/ \E s \in Sockets :
          \E seedOf \in [(IF HasGame(s) THEN DOMAIN games[sockets[s].roomId].players
                          ELSE {}) -> Seeds] : NewGame(s, seedOf)
    \/ \E s \in Sockets : Disconnect(s)
    \/ Broadcast

Spec == Init /\ [][Next]_vars

(***************************************************************************)
(* SpecLong: one connection, and the draw interval fires until it finds    *)
(* the pool exhausted.                                                     *)
(***************************************************************************)
LongSockets == {"s1"}

NextLong ==
    \/ \E s \in LongSockets, roomId \in Rooms, seed \in Seeds :
          \E playerName \in PlayerNames(s) : JoinGame(s, roomId, playerName, seed)
    \/ \E s \in LongSockets, num \in StartNums : StartGame(s, num)
    \/ \E roomId \in TimerRooms, num \in DrawNums : DrawTick(roomId, num)
    \/ \E s \in LongSockets : \E cell \in MarkInputs(s) : MarkCell(s, cell[1], cell[2])
    \/ \E s \in LongSockets : ClaimBingo(s)
    \/ \E s \in LongSockets :
          \E seedOf \in [(IF HasGame(s) THEN DOMAIN games[sockets[s].roomId].players
                          ELSE {}) -> Seeds] : NewGame(s, seedOf)
    \/ \E s \in LongSockets : Disconnect(s)
    \/ Broadcast

SpecLong == Init /\ [][NextLong]_vars

(***************************************************************************)
(* SpecFair: one connection, one stream of Math.random() values, marks on  *)
(* row 2; the interval of setInterval fires again and again for as long *)
(* as it is not cleared.                                                   *)
(***************************************************************************)
FairSeeds == {0}
FairMarkInputs == {<<2, col>> : col \in Idx \ {2}}

Tick == \E roomId \in TimerRooms, num \in DrawNums : DrawTick(roomId, num)

NextFair ==
    \/ \E s \in LongSockets, roomId \in Rooms, seed \in FairSeeds :
          \E playerName \in PlayerNames(s) : JoinGame(s, roomId, playerName, seed)
    \/ \E s \in LongSockets, num \in DrawNums : StartGame(s, num)
    \/ Tick
    \/ \E s \in LongSockets : \E cell \in FairMarkInputs : MarkCell(s, cell[1], cell[2])
    \/ \E s \in LongSockets : ClaimBingo(s)
    \/ \E s \in LongSockets :
          \E seedOf \in [(IF HasGame(s) THEN DOMAIN games[sockets[s].roomId].players
                          ELSE {}) -> FairSeeds] : NewGame(s, seedOf)
    \/ \E s \in LongSockets : Disconnect(s)
    \/ Broadcast

SpecFair == Init /\ [][NextFair]_vars /\ WF_vars(Tick)

(***************************************************************************)
(* SpecRooms: one connection that sends joinGame for two room ids.         *)
(***************************************************************************)
TwoRooms == {"A", "B"}

NextRooms ==
    \/ \E s \in LongSockets, roomId \in TwoRooms, seed \in FairSeeds :
          \E playerName \in PlayerNames(s) : JoinGame(s, roomId, playerName, seed)
    \/ \E s \in LongSockets, num \in DrawNums : StartGame(s, num)
    \/ \E roomId \in TimerRooms, num \in DrawNums :
          Len(HistoryOf(roomId)) < MaxDraws /\ DrawTick(roomId, num)
    \/ \E s \in LongSockets : \E cell \in MarkInputs(s) : MarkCell(s, cell[1], cell[2])
    \/ \E s \in LongSockets : ClaimBingo(s)
    \/ \E s \in LongSockets :
          \E seedOf \in [(IF HasGame(s) THEN DOMAIN games[sockets[s].roomId].players
                          ELSE {}) -> FairSeeds] : NewGame(s, seedOf)
    \/ \E s \in LongSockets : Disconnect(s)
    \/ Broadcast

SpecRooms == Init /\ [][NextRooms]_vars

(***************************************************************************)
(* SpecCards: two connections that join, start, reset and leave, their     *)
(* cards generated from every stream of CardSeeds.                         *)
(***************************************************************************)
NextCards ==
    \/ \E s \in Sockets, roomId \in Rooms, seed \in CardSeeds :
          \E playerName \in PlayerNames(s) : JoinGame(s, roomId, playerName, seed)
    \/ \E s \in Sockets, num \in DrawNums : StartGame(s, num)
    \/ \E s \in Sockets :
          \E seedOf \in [(IF HasGame(s) THEN DOMAIN games[sockets[s].roomId].players
                          ELSE {}) -> CardSeeds] : NewGame(s, seedOf)
    \/ \E s \in Sockets : Disconnect(s)

SpecCards == Init /\ [][NextCards]_vars

(***************************************************************************)
(* SpecWin: checkWin applied, by claimBingo, to marked sets built from the *)
(* lines of the card.  The initial states are states of a room in play in which    *)
(* the interval has called 1, 2, .., 75 in this order, so that every cell  *)
(* of the card can have been marked by markCell.                           *)
(***************************************************************************)
\* The twelve lines of a card, as sets of cell indices row * 5 + col.
Lines ==
    {{row * 5 + col : col \in Idx} : row \in Idx}
    \cup {{row * 5 + col : row \in Idx} : col \in Idx}
    \cup {{i * 5 + i : i \in Idx}, {i * 5 + (4 - i) : i \in Idx}}

\* The sets of at most k cell indices.
RECURSIVE AtMost(_)
AtMost(k) ==
    IF k = 0 THEN {{}}
    ELSE LET smaller == AtMost(k - 1)
         IN  smaller \cup {m \cup {index} : m \in smaller, index \in 0 .. 24}

\* A line, or no cell.
LinesOrNone == Lines \cup {{}}

\* The room of s after 75 draws, with markedCells as the marked set of s.
WinGame(s, markedCells) ==
    [addPlayer(NewBingoGame, s, "Ann", 0) EXCEPT
        !.players[s].markedCells = markedCells,
        !.gameState = "playing",
        !.calledNumbers = ArrayFrom(1, MaxNumber),
        !.currentNumber = MaxNumber,
        !.callInterval = Handle]

\* The marked sets are the unions of two lines (or of one, or of none) less
\* at most MaxMissing cells.
InitWin ==
    \E roomId \in Rooms, line1 \in LinesOrNone, line2 \in LinesOrNone,
       missing \in AtMost(MaxMissing) :
        /\ games = [r \in {roomId} |-> WinGame("s1", (line1 \cup line2) \ missing)]
        /\ orphans = EmptyMap
        /\ sockets = [s \in Sockets |->
                         [connected |-> TRUE,
                          roomId |-> IF s = "s1" THEN roomId ELSE NoRoom]]
        /\ outbox = {Emit("numberCalled", roomId)}

NextWin == \E s \in LongSockets : ClaimBingo(s)

SpecWin == InitWin /\ [][NextWin]_vars

(***************************************************************************)
(* Notions the properties are stated with.                                 *)
(***************************************************************************)
\* The marked set, with the Free cell counted as marked, holds a whole line.
HasCompleteLine(markedCells) ==
    \E line \in Lines : line \subseteq (markedCells \cup {12})

RoomOf(s) == sockets[s].roomId

\* Connection s is a participant of the room of the registry it joined last.
Participant(s) ==
    /\ sockets[s].connected
    /\ HasGame(s)
    /\ s \in DOMAIN games[RoomOf(s)].players

Playing(roomId) == games[roomId].gameState = "playing"
Finished(roomId) == games[roomId].gameState = "finished"
Waiting(roomId) == games[roomId].gameState = "waiting"

AllNumbers == 1 .. 75

\* Every value of 1..75 is in the room's draw history.
Exhausted(roomId) == \A n \in AllNumbers : Includes(games[roomId].calledNumbers, n)

\* A participant of a Playing room whose marked set holds a complete line.
WinningClaim(s) ==
    /\ Participant(s)
    /\ Playing(RoomOf(s))
    /\ HasCompleteLine(games[RoomOf(s)].players[s].markedCells)

\* A participant of a Playing room whose marked set holds no complete line.
FalseClaim(s) ==
    /\ Participant(s)
    /\ Playing(RoomOf(s))
    /\ ~HasCompleteLine(games[RoomOf(s)].players[s].markedCells)

\* Every marked index is a cell of the card whose value is Free or drawn.
MarkedAreDrawn ==
    \A r \in DOMAIN games : \A s \in DOMAIN games[r].players :
        \A index \in games[r].players[s].markedCells :
            /\ index \in 0 .. 24
            /\ LET value == games[r].players[s].card[(index % 5) + 1][(index \div 5) + 1]
               IN  value = FREE \/ Includes(games[r].calledNumbers, value)

\* The value of cell (row, col) of the card of s is not Free and not drawn.
UndrawnCell(s, row, col) ==
    LET value == games[RoomOf(s)].players[s].card[col + 1][row + 1]
    IN  value # FREE /\ ~Includes(games[RoomOf(s)].calledNumbers, value)

\* Connection s is the only participant of its room.
LastParticipant(s) ==
    Participant(s) /\ DOMAIN games[RoomOf(s)].players = {s}

CardValues(card) == {card[c][r] : c \in 1 .. 5, r \in 1 .. 5} \ {FREE}

\* Column ranges, distinct values, Free at the centre and nowhere else.
ValidCard(card) ==
    /\ DOMAIN card = 1 .. 5
    /\ \A c \in 1 .. 5 : DOMAIN card[c] = 1 .. 5
    /\ \A c \in 1 .. 5, r \in 1 .. 5 :
          IF c = 3 /\ r = 3 THEN card[c][r] = FREE
          ELSE card[c][r] \in (15 * (c - 1) + 1) .. (15 * (c - 1) + 15)
    /\ Cardinality(CardValues(card)) = 24

\* The room `after` is the room `before` reset, its cards drawn from seedOf.
AfterReset(before, after, seedOf) ==
    /\ after.gameState = "waiting"
    /\ after.calledNumbers = <<>>
    /\ after.currentNumber = Null
    /\ after.winner = NoWinner
    /\ after.callInterval = Null
    /\ DOMAIN after.players = DOMAIN before.players
    /\ \A p \in DOMAIN after.players :
          /\ after.players[p].markedCells = {}
          /\ after.players[p].name = before.players[p].name
          /\ after.players[p].card = Cards[seedOf[p]]
          /\ ValidCard(after.players[p].card)

\* The events of a reset of room r.
ResetEvents(r) == {Emit("gameReset", p) : p \in DOMAIN games[r].players}

\* Every draw history holds values of 1..75 only, none twice.
HistoryDistinct ==
    \A r \in DOMAIN games :
        LET h == games[r].calledNumbers
        IN  /\ \A i \in 1 .. Len(h) : h[i] \in 1 .. 75
            /\ Cardinality({h[i] : i \in 1 .. Len(h)}) = Len(h)

(***************************************************************************)
(* C1 as stated: in every reachable state of every room of the registry,   *)
(* the draw-timer handle is present if and only if the room is Playing.    *)
(***************************************************************************)
C1_TimerIffPlaying ==
    \A r \in DOMAIN games : (games[r].callInterval # Null) <=> Playing(r)

(***************************************************************************)
(* C1 as amended: in every reachable state of every room of the registry,  *)
(* a present draw-timer handle implies that the room is Playing, and a     *)
(* Playing room has its handle present unless all 75 values are in its     *)
(* draw history (a draw tick found the pool exhausted and stopped the      *)
(* timer, leaving the room Playing).                                       *)
(***************************************************************************)
C1_TimerIffPlayingUnlessExhausted ==
    \A r \in DOMAIN games :
        /\ games[r].callInterval # Null => Playing(r)
        /\ (Playing(r) /\ games[r].callInterval = Null) => Exhausted(r)

\* C1: a room the draw tick left Playing with no timer, its pool exhausted,
\* its participant still in it.
C1_Witness ==
    \E r \in DOMAIN games :
        /\ Playing(r)
        /\ games[r].callInterval = Null
        /\ Exhausted(r)
        /\ DOMAIN games[r].players # {}

(***************************************************************************)
(* C2: a claimBingo by a participant of a Playing room whose marked set    *)
(* (Free counted) holds a complete line makes the room Finished, sets      *)
(* winner to the claimant's name and cancels the draw timer; and every     *)
(* start on a Finished room leaves its state, history and winner as they   *)
(* were (only a reset leaves Finished, see C7).                            *)
(***************************************************************************)
C2_WinFinishesAndStartIsNoOp ==
    [][\A s \in Sockets :
        /\ (WinningClaim(s) /\ ClaimBingo(s)) =>
              /\ RoomOf(s) \in DOMAIN games'
              /\ games'[RoomOf(s)].gameState = "finished"
              /\ games'[RoomOf(s)].winner = games[RoomOf(s)].players[s].name
              /\ games'[RoomOf(s)].callInterval = Null
        /\ \A num \in StartNums :
              (sockets[s].connected /\ HasGame(s) /\ Finished(RoomOf(s))
                  /\ StartGame(s, num)) =>
                /\ games'[RoomOf(s)].gameState = "finished"
                /\ games'[RoomOf(s)].calledNumbers = games[RoomOf(s)].calledNumbers
                /\ games'[RoomOf(s)].winner = games[RoomOf(s)].winner
                /\ games'[RoomOf(s)].callInterval = Null]_vars

\* C2: a room won by one of its two participants, after which start was sent.
C2_Witness ==
    \E r \in DOMAIN games :
        /\ Finished(r)
        /\ games[r].callInterval = Null
        /\ DOMAIN games[r].players = Sockets
        /\ \E s \in Sockets :
              /\ games[r].winner = games[r].players[s].name
              /\ HasCompleteLine(games[r].players[s].markedCells)
        /\ outbox = {Emit("gameStarted", r)}

(***************************************************************************)
(* C3: a claimBingo in a Playing room by a participant whose marked set    *)
(* (Free counted) holds no complete line leaves the room Playing, winner   *)
(* unset, the draw timer and the draw history as they were, and emits one  *)
(* event only, the rejection to the claimant; in every reachable state,    *)
(* so after any number of false claims.                                    *)
(***************************************************************************)
C3_FalseClaimRejected ==
    [][\A s \in Sockets :
        (FalseClaim(s) /\ ClaimBingo(s)) =>
          /\ games'[RoomOf(s)].gameState = "playing"
          /\ games'[RoomOf(s)].winner = NoWinner
          /\ games'[RoomOf(s)].callInterval = games[RoomOf(s)].callInterval
          /\ games'[RoomOf(s)].calledNumbers = games[RoomOf(s)].calledNumbers
          /\ outbox' = {Emit("invalidBingo", s)}]_vars

\* C3: a false claim was just rejected in a Playing room of two
\* participants, and the claimant can claim falsely again.
C3_Witness ==
    \E s \in Sockets :
        /\ FalseClaim(s)
        /\ DOMAIN games[RoomOf(s)].players = Sockets
        /\ games[RoomOf(s)].winner = NoWinner
        /\ games[RoomOf(s)].callInterval # Null
        /\ outbox = {Emit("invalidBingo", s)}

(***************************************************************************)
(* C4: in every reachable state every index row * 5 + col of every         *)
(* participant's marked set is a cell of that participant's card whose     *)
(* value is Free or is in the room's draw history; and a markCell on a     *)
(* cell whose value is neither leaves the marked set as it was.            *)
(***************************************************************************)
C4_OnlyDrawnOrFreeMarked ==
    /\ []MarkedAreDrawn
    /\ [][\A s \in Sockets : \A cell \in MarkInputs(s) :
            (Participant(s) /\ UndrawnCell(s, cell[1], cell[2])
                /\ MarkCell(s, cell[1], cell[2])) =>
              games'[RoomOf(s)].players[s].markedCells =
                  games[RoomOf(s)].players[s].markedCells]_vars

\* C4: a participant holds a mark on a drawn value while the cell
\* (row 0, col 4) of the same card is not drawn.
C4_Witness ==
    \E s \in Sockets :
        /\ Participant(s)
        /\ Len(games[RoomOf(s)].calledNumbers) > 1
        /\ \E index \in games[RoomOf(s)].players[s].markedCells : index # 12
        /\ UndrawnCell(s, 0, 4)

C6_ResetClearsRoom ==
    [][\A s \in Sockets :
        (sockets[s].connected /\ HasGame(s)) =>
          \A seedOf \in [DOMAIN games[RoomOf(s)].players -> Seeds] :
            NewGame(s, seedOf) =>
              AfterReset(games[RoomOf(s)], games'[RoomOf(s)], seedOf)]_vars

\* C6: a room of two participants that was just reset.
C6_Witness ==
    \E r \in DOMAIN games :
        /\ Waiting(r)
        /\ DOMAIN games[r].players = Sockets
        /\ \A p \in Sockets : games[r].players[p].markedCells = {}
        /\ games[r].calledNumbers = <<>>
        /\ outbox = {Emit("gameReset", p) : p \in Sockets}

(***************************************************************************)
(* C7: every change of a room's lifecycle state is Waiting to Playing by   *)
(* a start, Playing to Finished by a valid claimBingo, or Playing or       *)
(* Finished to Waiting by a reset; a Finished room stays Finished with     *)
(* the same winner in every step that is not a reset.                      *)
(***************************************************************************)
C7_LifecycleTransitions ==
    [][\A r \in DOMAIN games \cap DOMAIN games' :
        /\ games[r].gameState # games'[r].gameState =>
              \/ /\ Waiting(r)
                 /\ games'[r].gameState = "playing"
                 /\ outbox' = {Emit("gameStarted", r)}
              \/ /\ Playing(r)
                 /\ games'[r].gameState = "finished"
                 /\ outbox' = {Emit("gameWon", r)}
                 /\ \E s \in Sockets : RoomOf(s) = r /\ WinningClaim(s)
              \/ /\ Playing(r) \/ Finished(r)
                 /\ games'[r].gameState = "waiting"
                 /\ outbox' = ResetEvents(r)
        /\ (Finished(r) /\ outbox' # ResetEvents(r)) =>
              /\ games'[r].gameState = "finished"
              /\ games'[r].winner = games[r].winner]_vars

\* C7: a Finished room that a participant has just left, leaving it
\* non-empty.
C7_Witness ==
    \E r \in DOMAIN games :
        /\ Finished(r)
        /\ games[r].winner # NoWinner
        /\ outbox = {Emit("playerLeft", r)}

(***************************************************************************)
(* C8: a room's draw history holds only values of 1..75, none twice; a     *)
(* draw tick on a history of fewer than 75 values appends one value that   *)
(* was not in it and makes it the current value, and a draw tick on a      *)
(* history of 75 values appends nothing.                                   *)
(***************************************************************************)
C8_DrawsDistinctUntilExhausted ==
    /\ []HistoryDistinct
    /\ [][\A r \in DOMAIN games : \A num \in DrawNums :
            DrawTick(r, num) =>
              LET h == games[r].calledNumbers
                  h2 == games'[r].calledNumbers
              IN  IF Len(h) = 75
                  THEN h2 = h /\ games'[r].currentNumber = games[r].currentNumber
                  ELSE /\ Len(h2) = Len(h) + 1
                       /\ SubSeq(h2, 1, Len(h)) = h
                       /\ ~Includes(h, h2[Len(h2)])
                       /\ games'[r].currentNumber = h2[Len(h2)]]_vars

\* C8: the draw tick after the 75th value found the pool exhausted.
C8_Witness ==
    \E r \in DOMAIN games :
        /\ Len(games[r].calledNumbers) = 75
        /\ games[r].callInterval = Null
        /\ games[r].currentNumber = games[r].calledNumbers[75]
        /\ outbox = {}

(***************************************************************************)
(* C9: a start on a Waiting room makes it Playing with winner unset, sets  *)
(* the draw timer and draws once, so that after the step the draw history  *)
(* has exactly one element, which is the current value.                    *)
(***************************************************************************)
C9_StartDrawsOnce ==
    [][\A s \in Sockets : \A num \in StartNums :
        (sockets[s].connected /\ HasGame(s) /\ Waiting(RoomOf(s))
            /\ StartGame(s, num)) =>
          LET g == games'[RoomOf(s)]
          IN  /\ g.gameState = "playing"
              /\ g.winner = NoWinner
              /\ g.callInterval # Null
              /\ Len(g.calledNumbers) = 1
              /\ g.calledNumbers[1] \in 1 .. 75
              /\ g.currentNumber = g.calledNumbers[1]]_vars

\* C9: a room right after its start: Playing, timer set, one value drawn.
C9_Witness ==
    \E r \in DOMAIN games :
        /\ Playing(r)
        /\ games[r].callInterval # Null
        /\ Len(games[r].calledNumbers) = 1
        /\ games[r].currentNumber = games[r].calledNumbers[1]
        /\ games[r].winner = NoWinner
        /\ outbox = {Emit("gameStarted", r)}

(***************************************************************************)
(* C10 as stated: a start on a room that is not Waiting changes nothing    *)
(* of the room and emits no event, in particular no gameStarted to the     *)
(* room.                                                                   *)
(***************************************************************************)
C10_StartOnNonWaitingSilent ==
    [][\A s \in Sockets : \A num \in StartNums :
        (sockets[s].connected /\ HasGame(s) /\ ~Waiting(RoomOf(s))
            /\ StartGame(s, num)) =>
          /\ games' = games
          /\ outbox' = {}]_vars

(***************************************************************************)
(* C11 as stated: in every step that is not a reset of the room, every     *)
(* participant that is in the room before and after the step keeps its     *)
(* card and loses no index of its marked set; the steps are joins (a       *)
(* repeated join by the same connection included), start, markCell,        *)
(* claimBingo, leave of another participant, draw tick and broadcast tick. *)
(***************************************************************************)
C11_CardChangesOnlyByReset ==
    [][\A r \in DOMAIN games \cap DOMAIN games' :
        \A p \in DOMAIN games[r].players \cap DOMAIN games'[r].players :
            outbox' # ResetEvents(r) =>
              /\ games'[r].players[p].card = games[r].players[p].card
              /\ games[r].players[p].markedCells \subseteq
                     games'[r].players[p].markedCells]_vars

(***************************************************************************)
(* C12: every card held by a participant of a room of the registry,        *)
(* generated at join or at reset, is valid: the values of column c lie in  *)
(* 15c+1 .. 15c+15, the 24 values that are not Free are pairwise distinct, *)
(* the cell (col 2, row 2) is Free and no other cell is.                   *)
(***************************************************************************)
C12_HeldCardsValid ==
    \A r \in DOMAIN games : \A p \in DOMAIN games[r].players :
        ValidCard(games[r].players[p].card)

\* C12: a room that was just reset, whose two participants hold different
\* cards, one of them the card of the last stream.
C12_Witness ==
    \E r \in DOMAIN games :
        /\ DOMAIN games[r].players = Sockets
        /\ outbox = {Emit("gameReset", p) : p \in Sockets}
        /\ games[r].players["s1"].card # games[r].players["s2"].card
        /\ games[r].players["s1"].card = generateBingoCard(RandDenom - 1)

(***************************************************************************)
(* C13: for every marked set within 0..24, the win check of claimBingo     *)
(* answers true (the room is won) exactly when the set extended with the   *)
(* Free index 12 holds all five indices row * 5 + col of one of the twelve *)
(* lines (5 rows, 5 columns, the diagonal row = col, the diagonal          *)
(* row + col = 4), and false (the claim is rejected) otherwise.            *)
(***************************************************************************)
C13_WinIffCompleteLine ==
    [][\A s \in Sockets :
        (Participant(s) /\ Playing(RoomOf(s)) /\ ClaimBingo(s)) =>
          LET markedCells == games[RoomOf(s)].players[s].markedCells
              line == \E l \in Lines : l \subseteq (markedCells \cup {12})
          IN  /\ markedCells \subseteq 0 .. 24
              /\ checkWin(markedCells) <=> line
              /\ line => /\ outbox' = {Emit("gameWon", RoomOf(s))}
                         /\ games'[RoomOf(s)].gameState = "finished"
              /\ ~line => /\ outbox' = {Emit("invalidBingo", s)}
                          /\ games'[RoomOf(s)].gameState = "playing"]_vars

\* C13: a room won with the diagonal row + col = 4 and nothing else marked.
C13_Witness ==
    \E r \in DOMAIN games :
        /\ Finished(r)
        /\ outbox = {Emit("gameWon", r)}
        /\ \E s \in DOMAIN games[r].players :
              games[r].players[s].markedCells = {4, 8, 12, 16, 20}

\* The marked set is a line less one of its cells, the cell `missing`.
FourOfLine(markedCells, missing) ==
    \E line \in Lines : missing \in line /\ markedCells = line \ {missing}

(***************************************************************************)
(* C14 as stated: for every line and every marked set that consists of     *)
(* exactly four of the line's five indices, the win check is false: the    *)
(* claim is rejected.                                                      *)
(***************************************************************************)
C14_FourOfFiveIsNoWin ==
    [][\A s \in Sockets :
        (Participant(s) /\ Playing(RoomOf(s)) /\ ClaimBingo(s)
            /\ \E missing \in 0 .. 24 :
                  FourOfLine(games[RoomOf(s)].players[s].markedCells, missing)) =>
          /\ outbox' = {Emit("invalidBingo", s)}
          /\ games'[RoomOf(s)].gameState = "playing"]_vars

(***************************************************************************)
(* C14 as amended: for every line and every marked set that consists of    *)
(* exactly four of the line's five indices, the win check is false when    *)
(* the missing index is not the Free index 12, and true when it is (the    *)
(* four other cells of the row, the column or a diagonal through the       *)
(* centre: the check counts the Free cell as marked).                      *)
(***************************************************************************)
C14_FourOfFiveWinsOnlyWithFree ==
    [][\A s \in Sockets : \A missing \in 0 .. 24 :
        (Participant(s) /\ Playing(RoomOf(s)) /\ ClaimBingo(s)
            /\ FourOfLine(games[RoomOf(s)].players[s].markedCells, missing)) =>
          IF missing = 12
          THEN /\ outbox' = {Emit("gameWon", RoomOf(s))}
               /\ games'[RoomOf(s)].gameState = "finished"
          ELSE /\ outbox' = {Emit("invalidBingo", s)}
               /\ games'[RoomOf(s)].gameState = "playing"]_vars

\* C14: a claim was just rejected on four cells of row 0 (the check added
\* the Free index to the marked set).
C14_Witness ==
    \E r \in DOMAIN games :
        /\ Playing(r)
        /\ \E s \in DOMAIN games[r].players :
              /\ outbox = {Emit("invalidBingo", s)}
              /\ games[r].players[s].markedCells = {0, 1, 2, 3, 12}

(***************************************************************************)
(* C15 as stated: the win check of a claimBingo in a Playing room, whether *)
(* the claim succeeds or is rejected, leaves the claimant's marked set and *)
(* card, the other participants, the draw history and the current value as *)
(* they were, and a rejected claim leaves the whole room as it was.        *)
(***************************************************************************)
C15_WinCheckHasNoSideEffect ==
    [][\A s \in Sockets :
        (Participant(s) /\ Playing(RoomOf(s)) /\ ClaimBingo(s)) =>
          /\ games'[RoomOf(s)].players = games[RoomOf(s)].players
          /\ games'[RoomOf(s)].calledNumbers = games[RoomOf(s)].calledNumbers
          /\ games'[RoomOf(s)].currentNumber = games[RoomOf(s)].currentNumber
          /\ FalseClaim(s) => games' = games]_vars

(***************************************************************************)
(* C16: no game deleted from the registry keeps a live draw interval; a    *)
(* draw tick fires only on a room of the registry that is Playing and      *)
(* whose timer is not cancelled; and every step that changes the draw      *)
(* history or the current value of a room is a reset, a start of a Waiting *)
(* room, or a draw tick on a Playing room with a live timer, so that the   *)
(* history and the current value of a Waiting or Finished room change by   *)
(* reset or start only.                                                    *)
(***************************************************************************)
C16_CancelledTimerNeverDraws ==
    /\ [](DOMAIN orphans = {})
    /\ [][/\ \A r \in TimerRooms : \A num \in DrawNums :
               DrawTick(r, num) =>
                 /\ r \in DOMAIN games
                 /\ Playing(r)
                 /\ games[r].callInterval # Null
          /\ \A r \in DOMAIN games \cap DOMAIN games' :
               (\/ games'[r].calledNumbers # games[r].calledNumbers
                \/ games'[r].currentNumber # games[r].currentNumber) =>
                 \/ outbox' = ResetEvents(r)
                 \/ Waiting(r) /\ outbox' = {Emit("gameStarted", r)}
                 \/ /\ Playing(r)
                    /\ games[r].callInterval # Null
                    /\ \E num \in DrawNums : DrawTick(r, num)]_vars

\* C16: a room of two participants won after four draw ticks or more, its
\* timer cancelled, after which the broadcast tick emitted nothing.
C16_Witness ==
    \E r \in DOMAIN games :
        /\ Finished(r)
        /\ games[r].callInterval = Null
        /\ Len(games[r].calledNumbers) >= 5
        /\ DOMAIN games[r].players = Sockets
        /\ \A p \in Sockets : games[r].players[p].markedCells # {}
        /\ outbox = {}

\* Room r is in the registry, Playing, with all 75 values drawn and its
\* timer cancelled.
Stopped(r) ==
    /\ r \in DOMAIN games
    /\ Playing(r)
    /\ Exhausted(r)
    /\ games[r].callInterval = Null

(***************************************************************************)
(* C17: with the draw tick weakly fair, a Playing room leads to a state in *)
(* which all 75 values are in its history and its timer is cancelled,      *)
(* unless a claim succeeds, a reset occurs or its last participant leaves  *)
(* first; the draw tick on a history of 75 values cancels the timer and    *)
(* leaves the room Playing; and from then on the room stays Playing with   *)
(* winner unset, no timer and the same history in every step (a start      *)
(* included) that is not a successful claim, a reset or the leave of the   *)
(* last participant.                                                       *)
(***************************************************************************)
C17_ExhaustionStopsTimerStaysPlaying ==
    /\ \A r \in Rooms :
          (r \in DOMAIN games /\ Playing(r)) ~>
              (Stopped(r) \/ r \notin DOMAIN games \/ ~Playing(r))
    /\ [][\A r \in DOMAIN games :
            /\ \A num \in DrawNums :
                  (Playing(r) /\ Exhausted(r) /\ DrawTick(r, num)) =>
                      /\ Stopped(r)'
                      /\ games'[r].calledNumbers = games[r].calledNumbers
            /\ Stopped(r) =>
                  \/ /\ Stopped(r)'
                     /\ games'[r].winner = NoWinner
                     /\ games'[r].calledNumbers = games[r].calledNumbers
                  \/ outbox' = {Emit("gameWon", r)}
                  \/ outbox' = ResetEvents(r)
                  \/ r \notin DOMAIN games']_vars

\* C17: a room whose pool is exhausted and whose timer is cancelled, still
\* Playing with no winner right after a start was sent to it.
C17_Witness ==
    \E r \in DOMAIN games :
        /\ Stopped(r)
        /\ games[r].winner = NoWinner
        /\ DOMAIN games[r].players # {}
        /\ outbox = {Emit("gameStarted", r)}

\* The card holds a line every cell of which is Free or has its value in
\* the history.
HasDrawnLine(card, history) ==
    \E line \in Lines : \A index \in line :
        LET value == card[(index % 5) + 1][(index \div 5) + 1]
        IN  value = FREE \/ Includes(history, value)

(***************************************************************************)
(* C18: every step that makes a room Finished is a claim of one of its     *)
(* participants, who becomes the winner, and whose card holds at that      *)
(* moment a complete line every cell of which is Free or has its value in  *)
(* the room's draw history; and every Finished room has a winner and a     *)
(* draw history of at least 4 values.                                      *)
(***************************************************************************)
C18_NoFalseWin ==
    /\ [](\A r \in DOMAIN games :
            Finished(r) => /\ games[r].winner # NoWinner
                           /\ Len(games[r].calledNumbers) >= 4)
    /\ [][\A r \in DOMAIN games \cap DOMAIN games' :
            (~Finished(r) /\ games'[r].gameState = "finished") =>
              /\ outbox' = {Emit("gameWon", r)}
              /\ \E s \in DOMAIN games[r].players :
                    /\ RoomOf(s) = r
                    /\ games'[r].winner = games[r].players[s].name
                    /\ HasDrawnLine(games[r].players[s].card,
                                    games[r].calledNumbers)]_vars

\* C18: a room just won by a participant whose card holds a line of drawn
\* values, while the card of the other participant holds none.
C18_Witness ==
    \E r \in DOMAIN games :
        /\ Finished(r)
        /\ outbox = {Emit("gameWon", r)}
        /\ DOMAIN games[r].players = Sockets
        /\ \E s \in Sockets :
              /\ games[r].winner = games[r].players[s].name
              /\ HasDrawnLine(games[r].players[s].card, games[r].calledNumbers)
        /\ \E s \in Sockets :
              ~HasDrawnLine(games[r].players[s].card, games[r].calledNumbers)

\* Every connection that has joined a room has disconnected: a connection
\* that is still open has no roomId.
AllLeft == \A s \in Sockets : sockets[s].connected => sockets[s].roomId = NoRoom

(***************************************************************************)
(* C19 as stated: when every connection that ever joined has disconnected, *)
(* the registry holds no room and no draw timer is live, also when a       *)
(* connection has sent joinGame for more than one room id.                 *)
(***************************************************************************)
C19_NoRoomAfterAllLeft ==
    AllLeft =>
      /\ games = EmptyMap
      /\ orphans = EmptyMap

(***************************************************************************)
(* C20: in every reachable state of every room of the registry the current *)
(* value is unset exactly when the draw history is empty, and is the last  *)
(* element of the draw history otherwise (after start, draw ticks,         *)
(* exhaustion, win and reset).                                             *)
(***************************************************************************)
C20_CurrentIsLastDrawn ==
    \A r \in DOMAIN games :
        LET history == games[r].calledNumbers
        IN  /\ games[r].currentNumber = Null <=> Len(history) = 0
            /\ Len(history) > 0 => games[r].currentNumber = history[Len(history)]

\* C20: a room right after a start whose immediate draw called a value
\* other than 1.
C20_Witness ==
    \E r \in DOMAIN games :
        /\ Len(games[r].calledNumbers) = 1
        /\ games[r].currentNumber = games[r].calledNumbers[1]
        /\ games[r].currentNumber > 1
        /\ outbox = {Emit("gameStarted", r)}

====
